---- MODULE Spec2Model ----
(***************************************************************************)
(* A model of product_ocr's extraction core (src/helpers.py):              *)
(*   _parse_markdown_text          the line-by-line heuristic extractor    *)
(*   extract_product_info_from_ocr the three-source merge and the record   *)
(*                                 construction with its fallback          *)
(*   draw_bounding_boxes_on_image  the overlay pass                        *)
(*   process_image_file            the per-image try/except boundary       *)
(*   process_batch_images          the thread-pool batch                   *)
(* and of the record type ProductInfo (src/scheamas/v1/schemas.py).        *)
(***************************************************************************)
EXTENDS Naturals, Sequences, FiniteSets, TLC

VARIABLES
    \* _parse_markdown_text
    text,        \* lines: the lines of the text, in order
    pos,         \* how many lines the for loop has processed
    result,      \* result: the mapping built so far
    pcParse,     \* "idle" | "loop" | "returned"
    \* extract_product_info_from_ocr
    ocr_response,\* the response given to the function
    extracted,   \* extracted: the merged mapping
    product,     \* what the function produced: a record or a raised error
    pcExtract,   \* "idle" | "merge" | "build" | "done"
    \* process_image_file
    scenario,    \* the image: which collaborator call fails, and the response
    ret,         \* what the call produced
    pcImage,     \* "idle" | "call" | "done"
    \* process_batch_images
    image_paths, \* the argument
    trouble,     \* the way an analysis of this batch can fail
    fate,        \* per image, what its analysis meets
    max_workers, \* the argument (Unset: the caller left the default)
    futures,     \* per image: "none" | "queued" | "running" | "done"
    outcome,     \* per image: what its future holds once done
    results,     \* results: the list being built
    collected,   \* the images as_completed has yielded, in that order
    pcBatch      \* "idle" | "submit" | "collect" | "returned" | "interrupted" | "aborted"

vars == <<text, pos, result, pcParse,
          ocr_response, extracted, product, pcExtract,
          scenario, ret, pcImage,
          image_paths, trouble, fate, max_workers, futures, outcome, results,
          collected, pcBatch>>

parseVars == <<text, pos, result, pcParse>>
extractVars == <<ocr_response, extracted, product, pcExtract>>
imageVars == <<scenario, ret, pcImage>>
batchVars == <<image_paths, trouble, fate, max_workers, futures, outcome, results,
               collected, pcBatch>>

----
(* Bounds of the model.                                                    *)

MaxLines == 3
MaxEntries == 2
MaxBoxes == 2
MaxImages == 3
MaxWorkers == 2
MaxPages == 2

----
(* Python values. Every value carries its type, so that validation can     *)
(* tell a string from a number: ty is "str", "int", "bool", "list" or      *)
(* "none", v is the value's text.                                          *)

Str(s) == [ty |-> "str", v |-> s]
PyInt(s) == [ty |-> "int", v |-> s]
Bool(s) == [ty |-> "bool", v |-> s]
None == [ty |-> "none", v |-> "None"]
PyTrue == Bool("True")
PyFalse == Bool("False")

\* bool(x) of Python, as the conditions `if key and val` read it
Truthy(x) ==
    CASE x.ty = "str" -> x.v # ""
      [] x.ty = "int" -> x.v # "0"
      [] x.ty = "bool" -> x.v = "True"
      [] x.ty = "list" -> x.v # "[]"
      [] OTHER -> FALSE

\* dict: a function from the keys present to their values
EmptyDict == [k \in {} |-> None]
SetItem(d, k, v) == [x \in (DOMAIN d) \cup {k} |-> IF x = k THEN v ELSE d[x]]
Restrict(d, ks) == [x \in (DOMAIN d) \cap ks |-> d[x]]

SeqsUpTo(S, n) == UNION {[1..m -> S] : m \in 0..n}

----
(* The recognized text. A line is a label, an optional separator and a     *)
(* value token: "Brand: Acme" is label "brand", sep ":", word "Acme";      *)
(* "MRP- $4" is label "MRP", sep "-", sym "$", num "4". A token is a       *)
(* currency symbol, digits and a unit, or a word. The patterns of          *)
(* _parse_markdown_text are evaluated on these parts.                      *)

Tok(sym, num, unit, word) == [sym |-> sym, num |-> num, unit |-> unit, word |-> word]
Line(label, sep, tok) == [label |-> label, sep |-> sep, tok |-> tok]

\* the token's text, as it stands in the line
TokText(t) == t.sym \o t.num \o t.unit \o t.word

\* line.lower(): the labels that occur with capitals
Lower(label) ==
    CASE label = "Brand" -> "brand"
      [] label = "MRP" -> "mrp"
      [] label = "Gluten Free" -> "gluten free"
      [] OTHER -> label

\* lower.startswith(p) for the prefixes the function tests
StartsWith(line, prefixes) == Lower(line.label) \in prefixes

\* line.split(":", 1): two parts when the line holds a colon; the second
\* part, stripped, is the token's text
HasColon(line) == line.sep = ":"
AfterColon(line) == TokText(line.tok)

WeightUnits == {"g", "kg", "ml", "l"}
SizeUnits == {"cm", "mm", "inch", "in"}
CurrencySymbols == {"$", "Rs"}   \* "Rs" stands for the rupee sign

\* re.search(r"(?:price|mrp)\s*[:\-]?\s*([\u20b9$]\s?\d+[.,]?\d*)", line, re.IGNORECASE)
PriceMatch(line) ==
    /\ Lower(line.label) \in {"price", "mrp"}
    /\ line.tok.sym \in CurrencySymbols
    /\ line.tok.num # ""
PriceGroup(line) == line.tok.sym \o line.tok.num

\* re.search(r"\bweight\s*[:\-]?\s*(\d+(?:\.\d+)?\s*(?:g|kg|ml|l))\b", ...)
WeightMatch(line) ==
    /\ Lower(line.label) = "weight"
    /\ line.tok.sym = "" /\ line.tok.num # ""
    /\ line.tok.unit \in WeightUnits
WeightGroup(line) == line.tok.num \o line.tok.unit

\* re.search(r"\bsize\s*[:\-]?\s*(\d+(?:\.\d+)?\s*(?:cm|mm|inch|in))\b", ...)
SizeMatch(line) ==
    /\ Lower(line.label) = "size"
    /\ line.tok.sym = "" /\ line.tok.num # ""
    /\ line.tok.unit \in SizeUnits
SizeGroup(line) == line.tok.num \o line.tok.unit

\* "halal" in lower and ("yes" in lower or "certified" in lower)
HalalMatch(line) ==
    /\ Lower(line.label) = "halal"
    /\ line.tok.word \in {"yes", "certified"}

\* "gluten free" in lower or "gluten-free" in lower
GlutenMatch(line) == Lower(line.label) \in {"gluten free", "gluten-free"}

\* re.search(r"\bflavour\s*[:\-]?\s*([A-Za-z ]+)", ...)
FlavourMatch(line) ==
    /\ Lower(line.label) = "flavour"
    /\ line.tok.sym = "" /\ line.tok.num = ""
    /\ line.tok.word # ""
FlavourGroup(line) == line.tok.word

\* re.search(r"\bitem[s]?\s*count\s*[:\-]?\s*(\d+)", ...)
ItemCountMatch(line) ==
    /\ Lower(line.label) \in {"item count", "items count"}
    /\ line.tok.sym = "" /\ line.tok.num # ""
ItemCountGroup(line) == line.tok.num

\* re.search(r"\bno(?:\.| of)?\s*pack(?:s)?\s*[:\-]?\s*(\d+)", ...)
PacksMatch(line) ==
    /\ Lower(line.label) \in {"no of packs", "no. pack", "no packs"}
    /\ line.tok.sym = "" /\ line.tok.num # ""
PacksGroup(line) == line.tok.num

\* whether the rule of key k matches the line, and the value it extracts
RuleMatches(k, line) ==
    CASE k = "product_name" ->
            StartsWith(line, {"product name", "name of product"}) /\ HasColon(line)
      [] k = "brand" -> StartsWith(line, {"brand"}) /\ HasColon(line)
      [] k = "manufacturer" ->
            StartsWith(line, {"manufactured by", "produced by"}) /\ HasColon(line)
      [] k = "origin_country" ->
            StartsWith(line, {"origin country", "originated from"}) /\ HasColon(line)
      [] k = "price" -> PriceMatch(line)
      [] k = "weight" -> WeightMatch(line)
      [] k = "size" -> SizeMatch(line)
      [] k = "ingredients" -> StartsWith(line, {"ingredients"}) /\ HasColon(line)
      [] k = "halal" -> HalalMatch(line)
      [] k = "gluten_free" -> GlutenMatch(line)
      [] k = "flavour" -> FlavourMatch(line)
      [] k = "item_count" -> ItemCountMatch(line)
      [] k = "no_of_packs" -> PacksMatch(line)
      [] OTHER -> FALSE

RuleValue(k, line) ==
    CASE k \in {"product_name", "brand", "manufacturer", "origin_country", "ingredients"} ->
            Str(AfterColon(line))
      [] k = "price" -> Str(PriceGroup(line))
      [] k = "weight" -> Str(WeightGroup(line))
      [] k = "size" -> Str(SizeGroup(line))
      [] k = "flavour" -> Str(FlavourGroup(line))
      [] k = "item_count" -> Str(ItemCountGroup(line))
      [] k = "no_of_packs" -> Str(PacksGroup(line))
      [] OTHER -> PyTrue

\* result[k] = v
Assign(res, k, v) == SetItem(res, k, v)

\* the assignment without its `k not in result` test
AssignIfAbsent_Overwrites(res, k, v) == SetItem(res, k, v)

\* if ... and k not in result: result[k] = v
AssignIfAbsent(res, k, v) == IF k \in DOMAIN res THEN res ELSE SetItem(res, k, v)

\* a flag assigned the outcome of its test on every line
AssigningRule_StoresTheTest(res, line, k) ==
    IF RuleMatches(k, line) THEN Assign(res, k, RuleValue(k, line))
    ELSE IF k \in {"halal", "gluten_free"} THEN Assign(res, k, PyFalse)
    ELSE res

\* a rule that assigns whenever it matches (product name, brand,
\* manufacturer, origin country and the two flags)
AssigningRule(res, line, k) ==
    IF RuleMatches(k, line) THEN Assign(res, k, RuleValue(k, line)) ELSE res

\* a rule that tests `k not in result` before it assigns
GuardedRule(res, line, k) ==
    IF RuleMatches(k, line) THEN AssignIfAbsent(res, k, RuleValue(k, line)) ELSE res

\* one pass of the loop body, the rules in the order of the source
ParseLine(res, line) ==
    LET r1 == AssigningRule(res, line, "product_name")
        r2 == AssigningRule(r1, line, "brand")
        r3 == AssigningRule(r2, line, "manufacturer")
        r4 == AssigningRule(r3, line, "origin_country")
        r5 == GuardedRule(r4, line, "price")
        r6 == GuardedRule(r5, line, "weight")
        r7 == GuardedRule(r6, line, "size")
        r8 == GuardedRule(r7, line, "ingredients")
        r9 == AssigningRule(r8, line, "halal")
        r10 == AssigningRule(r9, line, "gluten_free")
        r11 == GuardedRule(r10, line, "flavour")
        r12 == GuardedRule(r11, line, "item_count")
    IN  GuardedRule(r12, line, "no_of_packs")

\* _parse_markdown_text(text): the loop over all the lines
RECURSIVE ParseFrom(_, _, _)
ParseFrom(res, lines, i) ==
    IF i > Len(lines) THEN res ELSE ParseFrom(ParseLine(res, lines[i]), lines, i + 1)
ParseMarkdownText(lines) == ParseFrom(EmptyDict, lines, 1)

\* the keys the extractor can write
HeuristicKeys ==
    {"product_name", "brand", "manufacturer", "origin_country", "price", "weight",
     "size", "ingredients", "halal", "gluten_free", "flavour", "item_count",
     "no_of_packs"}

\* the lines the texts of the model are made of: for every rule two lines
\* that match it with different values, and lines that match nothing
Colon(label, tok) == Line(label, ":", tok)
Word(w) == Tok("", "", "", w)
Num(n) == Tok("", n, "", "")
ParseLines ==
    { Colon("product name", Word("Cola")),
      Colon("Brand", Word("Acme")), Colon("brand", Word("Zest")),
      Line("brand", "", Word("Acme")),
      Colon("produced by", Word("Acme")), Colon("originated from", Word("Oman")),
      Colon("price", Tok("$", "4", "", "")), Line("MRP", "-", Tok("Rs", "120", "", "")),
      Colon("MRP", Num("120")),
      Colon("weight", Tok("", "250", "g", "")), Line("weight", "", Tok("", "2", "kg", "")),
      Colon("size", Tok("", "10", "cm", "")), Colon("size", Tok("", "3", "in", "")),
      Colon("ingredients", Word("Sugar")), Colon("ingredients", Word("Salt")),
      Colon("halal", Word("certified")), Colon("halal", Word("no")),
      Line("Gluten Free", "", Word("product")),
      Colon("flavour", Word("Mango")), Line("flavour", "-", Word("Lemon")),
      Colon("item count", Num("6")), Colon("items count", Num("12")),
      Colon("no of packs", Num("2")), Line("no. pack", "", Num("4")),
      Colon("note", Word("Acme")) }

----
(* ProductInfo (src/scheamas/v1/schemas.py): the declared fields and their *)
(* types. The model configuration is pydantic's default, which ignores     *)
(* keys that are not declared fields.                                      *)

StrFields ==
    {"product_name", "brand", "flavor", "product_description", "price", "barcode",
     "serving_size", "servings_per_container", "manufacturer", "distributor",
     "country_of_origin", "storage_instructions", "expiration_date", "batch_number"}
BoolFields == {"is_promotional"}
IntFields == {"item_count"}
ModelFields == {"net_content", "dimensions"}
ListFields == {"ingredients", "nutrition_facts", "allergens", "claims", "certifications"}

\* ProductInfo.__fields__
DeclaredFields == StrFields \cup BoolFields \cup IntFields \cup ModelFields \cup ListFields

\* product_name declared with a default, like every other field
RequiredFields_None == {}

\* product_name: str = Field(...): the one field with no default
RequiredFields == {"product_name"}

\* the strings int() accepts, among the texts of the model
NumericTexts == {"0", "2", "3", "4", "6", "7", "8", "10", "12", "120", "250"}

\* whether value x passes the declared type of field k
ValidValue(k, x) ==
    CASE x.ty = "none" -> k \notin RequiredFields
      [] k \in StrFields -> x.ty = "str"
      [] k \in BoolFields -> x.ty = "bool"
      [] k \in IntFields -> x.ty = "int" \/ (x.ty = "str" /\ x.v \in NumericTexts)
      [] k \in ModelFields -> x.ty = "dict"
      [] k \in ListFields -> x.ty = "list"
      [] OTHER -> TRUE

\* the value the record stores: a numeric string given for an int field is
\* converted
Coerce(k, x) == IF k \in IntFields /\ x.ty = "str" THEN PyInt(x.v) ELSE x

\* the fields ProductInfo(**data) rejects: required ones that are missing,
\* declared ones whose value fails its type
InvalidFields(data) ==
    (RequiredFields \ DOMAIN data)
        \cup {k \in DeclaredFields \cap DOMAIN data : ~ValidValue(k, data[k])}

\* a record type configured to keep undeclared keys
ProductInfo_AllowExtra(data) ==
    IF InvalidFields(data) = {}
    THEN [ty |-> "ProductInfo", fields |-> [k \in DOMAIN data |-> Coerce(k, data[k])]]
    ELSE [ty |-> "exc", type |-> "ValidationError", names |-> InvalidFields(data)]

\* ProductInfo(**data): the record, or the ValidationError raised
ProductInfo(data) ==
    IF InvalidFields(data) = {}
    THEN [ty |-> "ProductInfo",
          fields |-> [k \in DeclaredFields \cap DOMAIN data |-> Coerce(k, data[k])]]
    ELSE [ty |-> "exc", type |-> "ValidationError", names |-> InvalidFields(data)]

Raised(x) == x.ty = "exc"

----
(* extract_product_info_from_ocr. The response carries a structured        *)
(* annotation (a mapping; empty when the attribute is missing or falsy), a *)
(* bbox annotation (a mapping, a list of entries, or none) and pages.      *)

NoBbox == [form |-> "none", dict |-> EmptyDict, list |-> <<>>]
DictBbox(d) == [form |-> "dict", dict |-> d, list |-> <<>>]
ListBbox(l) == [form |-> "list", dict |-> EmptyDict, list |-> l]

\* an entry of the list form: item.get("key"), item.get("value"),
\* item.get("bbox"); a missing key is "", a missing value or bbox None
Entry(key, value, bbox) == [key |-> key, value |-> value, bbox |-> bbox]

\* a page: its markdown (lines; NoMarkdown when the page has no such
\* attribute) and its boxes (NoBoxes when it has no list of boxes)
NoMarkdown == [has |-> FALSE, lines |-> <<>>]
Markdown(ls) == [has |-> TRUE, lines |-> ls]
NoBoxes == [has |-> FALSE, list |-> <<>>]
Boxes(bs) == [has |-> TRUE, list |-> bs]
Page(md, boxes) == [markdown |-> md, boxes |-> boxes]

Response(doc, bbox, pages) ==
    [document_annotation |-> doc, bbox_annotation |-> bbox, pages |-> pages]

\* if hasattr(...) and ocr_response.document_annotation: extracted.update(...)
MergeDocument(ext, resp) ==
    [k \in (DOMAIN ext) \cup (DOMAIN resp.document_annotation) |->
        IF k \in DOMAIN resp.document_annotation
        THEN resp.document_annotation[k] ELSE ext[k]]

\* for k, v in bbox_annotation.items(): if k not in extracted: extracted[k] = v
MergeBboxDict(ext, d) ==
    [k \in (DOMAIN ext) \cup (DOMAIN d) |-> IF k \in DOMAIN ext THEN ext[k] ELSE d[k]]

\* for item in bbox_annotation:
\*     if key and val and key not in extracted: extracted[key] = val
MergeBboxItem(ext, item) ==
    IF item.key # "" /\ Truthy(item.value) /\ item.key \notin DOMAIN ext
    THEN SetItem(ext, item.key, item.value)
    ELSE ext

RECURSIVE MergeBboxList(_, _, _)
MergeBboxList(ext, items, i) ==
    IF i > Len(items) THEN ext
    ELSE MergeBboxList(MergeBboxItem(ext, items[i]), items, i + 1)

MergeBbox(ext, resp) ==
    CASE resp.bbox_annotation.form = "dict" -> MergeBboxDict(ext, resp.bbox_annotation.dict)
      [] resp.bbox_annotation.form = "list" -> MergeBboxList(ext, resp.bbox_annotation.list, 1)
      [] OTHER -> ext

\* "\n".join(page.markdown for page in pages if hasattr(page, "markdown"))
RECURSIVE FullText(_, _)
FullText(pages, i) ==
    IF i > Len(pages) THEN <<>>
    ELSE (IF pages[i].markdown.has THEN pages[i].markdown.lines ELSE <<>>)
            \o FullText(pages, i + 1)

\* heuristics = _parse_markdown_text(full_text)
Heuristics(resp) == ParseMarkdownText(FullText(resp.pages, 1))

\* for k, v in heuristics.items(): if k not in extracted: extracted[k] = v
MergeHeuristics(ext, resp) ==
    LET h == Heuristics(resp)
    IN  [k \in (DOMAIN ext) \cup (DOMAIN h) |-> IF k \in DOMAIN ext THEN ext[k] ELSE h[k]]

\* lines 74-98: the merged mapping
Merged(resp) == MergeHeuristics(MergeBbox(MergeDocument(EmptyDict, resp), resp), resp)

\* valid = {k: v for k, v in extracted.items() if k in ProductInfo.__fields__}
FallbackData(ext) == Restrict(ext, DeclaredFields)

\* lines 100-106: try ProductInfo(**extracted); on an exception
\* ProductInfo(**valid), whose exception is not caught. attempts counts the
\* constructions made.
BuildProductInfo(ext) ==
    LET first == ProductInfo(ext)
        second == ProductInfo(FallbackData(ext))
    IN  IF ~Raised(first)
        THEN [value |-> first, attempts |-> 1]
        ELSE [value |-> second, attempts |-> 2]

ExtractProductInfoFromOcr(resp) == BuildProductInfo(Merged(resp)).value

----
(* draw_bounding_boxes_on_image. A box is a sequence of coordinates, each  *)
(* a Python value. The overlay is the copy of the image with the           *)
(* rectangles drawn on it: the red ones (page boxes) and the blue ones     *)
(* (bbox-annotation entries), in drawing order.                            *)

Numeric(c) == c.ty = "int"

\* x0, y0, x1, y1 = box raises unless the box has four items;
\* draw.rectangle raises unless they are numbers
FourItems(box) == Len(box) = 4
DrawRectangleRaises(box) == \E j \in 1..Len(box) : ~Numeric(box[j])

\* try: x0, y0, x1, y1 = box; draw.rectangle(...)  except Exception: pass
DrawPageBox(red, box) ==
    IF FourItems(box) /\ ~DrawRectangleRaises(box) THEN Append(red, box) ELSE red

RECURSIVE DrawPageBoxes(_, _, _)
DrawPageBoxes(red, boxes, i) ==
    IF i > Len(boxes) THEN red
    ELSE DrawPageBoxes(DrawPageBox(red, boxes[i]), boxes, i + 1)

\* for page in pages: if hasattr(page, "boxes") and isinstance(page.boxes, list)
RECURSIVE DrawPages(_, _, _)
DrawPages(red, pages, i) ==
    IF i > Len(pages) THEN red
    ELSE DrawPages(IF pages[i].boxes.has
                   THEN DrawPageBoxes(red, pages[i].boxes.list, 1) ELSE red,
                   pages, i + 1)

\* coords = item.get("bbox"); if coords and len(coords) == 4: the entry is drawn
EntryIsDrawn(item) == item.bbox.ty = "list" /\ Len(item.bbox.items) = 4

\* for item in bbox_annotation: ... draw.rectangle(coords, outline="blue"),
\* outside any try: the first rectangle that raises ends the pass. The state
\* is the blue rectangles drawn and whether the pass raised.
RECURSIVE DrawEntries(_, _, _)
DrawEntries(blue, items, i) ==
    IF i > Len(items) THEN [blue |-> blue, raised |-> FALSE]
    ELSE IF ~EntryIsDrawn(items[i]) THEN DrawEntries(blue, items, i + 1)
    ELSE IF DrawRectangleRaises(items[i].bbox.items) THEN [blue |-> blue, raised |-> TRUE]
    ELSE DrawEntries(Append(blue, items[i].bbox.items), items, i + 1)

\* a box given to an entry: a list of coordinates, or None
BoxList(cs) == [ty |-> "list", v |-> IF cs = <<>> THEN "[]" ELSE "[..]", items |-> cs]
NoBox == [ty |-> "none", v |-> "None", items |-> <<>>]

\* the annotated image, or the exception draw.rectangle raised
DrawBoundingBoxesOnImage(resp) ==
    LET red == DrawPages(<<>>, resp.pages, 1)
        pass == IF resp.bbox_annotation.form = "list"
                THEN DrawEntries(<<>>, resp.bbox_annotation.list, 1)
                ELSE [blue |-> <<>>, raised |-> FALSE]
    IN  IF pass.raised
        THEN [ty |-> "exc", type |-> "TypeError", names |-> {}]
        ELSE [ty |-> "Image", red |-> red, blue |-> pass.blue]

----
(* process_image_file. A scenario is one image: the step of the pipeline   *)
(* at which a collaborator fails ("none": no collaborator fails) and the   *)
(* response the OCR call gives.                                            *)

FailSteps == {"none", "read", "upload", "signed_url", "ocr", "image_open"}
Scenario(fail, resp) == [fail |-> fail, response |-> resp]

Exc(type) == [ty |-> "exc", type |-> type, names |-> {}]

\* the exception each failing collaborator raises
StepException(step) ==
    CASE step = "read" -> Exc("OSError")
      [] step = "image_open" -> Exc("UnidentifiedImageError")
      [] OTHER -> Exc("SDKError")

\* str(e): the message, which for a ValidationError names the fields
Message(e) == [ty |-> "str", v |-> e.type, names |-> e.names]

\* lines 132-158, the body of the try: the (info, annotated_img) reached,
\* or the first exception raised on the way
TryBody(scn) ==
    LET info == ExtractProductInfoFromOcr(scn.response)
        img == DrawBoundingBoxesOnImage(scn.response)
    IN  IF scn.fail \in {"read", "upload", "signed_url", "ocr"}
        THEN StepException(scn.fail)
        ELSE IF Raised(info) THEN info
        ELSE IF scn.fail = "image_open" THEN StepException(scn.fail)
        ELSE IF Raised(img) THEN img
        ELSE [ty |-> "tuple", info |-> info, annotated_img |-> img]

\* return info, annotated_img, None
ReturnSuccess(body) ==
    [ty |-> "tuple", info |-> body.info, annotated_img |-> body.annotated_img, error |-> None]

\* a handler that logs the error and returns no message
ReturnError_NoMessage(e) ==
    [ty |-> "tuple", info |-> None, annotated_img |-> None, error |-> None]

\* except Exception as e: return None, None, str(e)
ReturnError(e) ==
    [ty |-> "tuple", info |-> None, annotated_img |-> None, error |-> Message(e)]

\* an except clause that names the file errors only
Caught_OnlyOSError(e) == e.type = "OSError"

\* which exceptions the except clause catches: Exception, that is all of them
Caught(e) == TRUE

\* the call: the tuple returned, or the exception raised out of the function
ProcessImageFile(scn) ==
    LET body == TryBody(scn)
    IN  IF ~Raised(body) THEN ReturnSuccess(body)
        ELSE IF Caught(body) THEN ReturnError(body)
        ELSE body

----
(* _parse_markdown_text as a process: one step per line of the loop.       *)

Texts == SeqsUpTo(ParseLines, MaxLines)

ParseIdle == /\ text = <<>> /\ pos = 0 /\ result = EmptyDict /\ pcParse = "idle"
ExtractIdle ==
    /\ ocr_response = EmptyDict /\ extracted = EmptyDict
    /\ product = EmptyDict /\ pcExtract = "idle"
ImageIdle == /\ scenario = EmptyDict /\ ret = EmptyDict /\ pcImage = "idle"
BatchIdle ==
    /\ image_paths = <<>> /\ trouble = EmptyDict /\ fate = <<>> /\ max_workers = 0
    /\ futures = <<>> /\ outcome = <<>> /\ results = <<>> /\ collected = <<>>
    /\ pcBatch = "idle"

\* the state on entry: result = {}, lines = text.splitlines()
InitParse ==
    /\ text \in Texts
    /\ pos = 0
    /\ result = EmptyDict
    /\ pcParse = "loop"
    /\ ExtractIdle /\ ImageIdle /\ BatchIdle

\* one iteration of `for l in lines`
ParseStep ==
    /\ pcParse = "loop"
    /\ pos < Len(text)
    /\ result' = ParseLine(result, text[pos + 1])
    /\ pos' = pos + 1
    /\ UNCHANGED <<text, pcParse>>
    /\ UNCHANGED <<extractVars, imageVars, batchVars>>

\* return result
ParseReturn ==
    /\ pcParse = "loop"
    /\ pos = Len(text)
    /\ pcParse' = "returned"
    /\ UNCHANGED <<text, pos, result>>
    /\ UNCHANGED <<extractVars, imageVars, batchVars>>

NextParse == ParseStep \/ ParseReturn

SpecParse == InitParse /\ [][NextParse]_vars

----
(* extract_product_info_from_ocr as a process: the merge, then the         *)
(* construction. The responses vary the three sources over the required    *)
(* key product_name, the typed key item_count, the list key ingredients    *)
(* and the undeclared key weight.                                          *)

\* the mappings that give each key of `choices` one of its values, or omit it
Dicts(choices) ==
    UNION { {d \in [K -> UNION {choices[k] : k \in K}] : \A k \in K : d[k] \in choices[k]}
            : K \in SUBSET DOMAIN choices }

DocAnnotations ==
    Dicts([product_name |-> {Str("Fizz")},
           item_count |-> {Str("many"), PyInt("7")},
           weight |-> {Str("1kg")}])

BboxDicts ==
    Dicts([product_name |-> {Str("Bolt")},
           item_count |-> {PyInt("0"), PyInt("8")}])

BboxEntries ==
    { Entry("product_name", Str("Bolt"), NoBox), Entry("product_name", Str(""), NoBox),
      Entry("item_count", PyInt("0"), NoBox), Entry("item_count", PyInt("8"), NoBox),
      Entry("", Str("Bolt"), NoBox) }

BboxAnnotations ==
    {NoBbox} \cup {DictBbox(d) : d \in BboxDicts}
             \cup {ListBbox(l) : l \in SeqsUpTo(BboxEntries, MaxEntries)}

TextPages ==
    {Page(NoMarkdown, NoBoxes)}
        \cup {Page(Markdown(<<l>>), NoBoxes) :
                l \in {Colon("product name", Word("Cola")), Colon("item count", Num("6")),
                       Colon("ingredients", Word("Sugar"))}}

ExtractResponses ==
    {Response(d, b, ps) :
        d \in DocAnnotations, b \in BboxAnnotations, ps \in SeqsUpTo(TextPages, MaxPages)}

\* the state on entry: extracted = {}
InitExtract ==
    /\ ocr_response \in ExtractResponses
    /\ extracted = EmptyDict
    /\ product = EmptyDict
    /\ pcExtract = "merge"
    /\ ParseIdle /\ ImageIdle /\ BatchIdle

\* lines 74-99: the three sources are merged into extracted
ExtractMerge ==
    /\ pcExtract = "merge"
    /\ extracted' = Merged(ocr_response)
    /\ pcExtract' = "build"
    /\ UNCHANGED <<ocr_response, product>>
    /\ UNCHANGED <<parseVars, imageVars, batchVars>>

\* lines 100-106: the record is built, or the second construction raises
ExtractBuild ==
    /\ pcExtract = "build"
    /\ product' = BuildProductInfo(extracted)
    /\ pcExtract' = "done"
    /\ UNCHANGED <<ocr_response, extracted>>
    /\ UNCHANGED <<parseVars, imageVars, batchVars>>

NextExtract == ExtractMerge \/ ExtractBuild

SpecExtract == InitExtract /\ [][NextExtract]_vars

----
(* process_image_file as a process: one call on one image. The responses   *)
(* vary the boxes: well-formed, with three coordinates, with coordinates   *)
(* that are not numbers.                                                   *)

GoodBox == <<PyInt("1"), PyInt("2"), PyInt("8"), PyInt("9")>>
ShortBox == <<PyInt("1"), PyInt("2"), PyInt("8")>>
TextBox == <<Str("a"), Str("b"), Str("c"), Str("d")>>
BoxShapes == {GoodBox, ShortBox, TextBox}

ImagePages ==
    {Page(md, bs) :
        md \in {NoMarkdown, Markdown(<<Colon("product name", Word("Cola"))>>)},
        bs \in {NoBoxes} \cup {Boxes(l) : l \in SeqsUpTo(BoxShapes, MaxBoxes)}}

ImageEntries ==
    {Entry("brand", Str("Bolt"), b) : b \in {NoBox} \cup {BoxList(c) : c \in BoxShapes}}

ImageBboxAnnotations ==
    {NoBbox, DictBbox(SetItem(EmptyDict, "brand", Str("Bolt")))}
        \cup {ListBbox(l) : l \in SeqsUpTo(ImageEntries, MaxEntries)}

ImageResponses ==
    {Response(d, b, ps) :
        d \in {EmptyDict, SetItem(EmptyDict, "product_name", Str("Fizz"))},
        b \in ImageBboxAnnotations,
        ps \in {<<>>} \cup {<<pg>> : pg \in ImagePages}}

Scenarios == {Scenario(f, r) : f \in FailSteps, r \in ImageResponses}

InitImage ==
    /\ scenario \in Scenarios
    /\ ret = EmptyDict
    /\ pcImage = "call"
    /\ ParseIdle /\ ExtractIdle /\ BatchIdle

\* the call of process_image_file on the image
ImageCall ==
    /\ pcImage = "call"
    /\ ret' = ProcessImageFile(scenario)
    /\ pcImage' = "done"
    /\ UNCHANGED scenario
    /\ UNCHANGED <<parseVars, extractVars, batchVars>>

NextImage == ImageCall

SpecImage == InitImage /\ [][NextImage]_vars

----
(* process_batch_images: a ThreadPoolExecutor of max_workers threads, one  *)
(* future per path, the results appended as the futures complete.          *)

\* max_workers: int = 4
DefaultMaxWorkers == 4

\* the argument image_paths: lists of up to MaxImages paths, in which a path
\* may repeat. The function never compares paths, so the lists are taken up
\* to the order of their items.
Paths == <<"a.jpg", "b.jpg">>
PathLists(paths) ==
    {[i \in 1..Len(g) |-> paths[g[i]]] :
        g \in {f \in SeqsUpTo(1..Len(paths), MaxImages) :
                  \A i, j \in 1..Len(f) : i < j => f[i] <= f[j]}}

\* what an image's analysis can meet: nothing wrong, or one of the ways to
\* fail: a collaborator call that fails, a response with no product name
\* (the merge fails), a response with an entry whose box cannot be drawn
\* (the overlay fails)
NameDoc == SetItem(EmptyDict, "product_name", Str("Fizz"))
GoodScenario == Scenario("none", Response(NameDoc, NoBbox, <<>>))
UploadFails == Scenario("upload", Response(NameDoc, NoBbox, <<>>))
NoNameScenario == Scenario("none", Response(EmptyDict, NoBbox, <<>>))
OverlayFails ==
    Scenario("none",
             Response(NameDoc, ListBbox(<<Entry("brand", Str("Bolt"), BoxList(TextBox))>>), <<>>))
Troubles ==
    {Scenario(f, Response(NameDoc, NoBbox, <<>>)) : f \in FailSteps \ {"none"}}
        \cup {NoNameScenario, OverlayFails}

NotStarted == Scenario("none", Response(EmptyDict, NoBbox, <<>>))
NoOutcome == EmptyDict

Images == 1..Len(image_paths)
InFlight == {i \in Images : futures[i] = "running"}
Queued == {i \in Images : futures[i] = "queued"}
Unsubmitted == {i \in Images : futures[i] = "none"}
Range(f) == {f[j] : j \in 1..Len(f)}

\* the call: results = [], the executor is created
InitBatch(paths, troubles) ==
    /\ image_paths \in PathLists(paths)
    /\ trouble \in troubles
    /\ max_workers \in (1..MaxWorkers) \cup {DefaultMaxWorkers}
    /\ fate = [i \in 1..Len(image_paths) |-> NotStarted]
    /\ futures = [i \in 1..Len(image_paths) |-> "none"]
    /\ outcome = [i \in 1..Len(image_paths) |-> NoOutcome]
    /\ results = <<>>
    /\ collected = <<>>
    /\ pcBatch = "submit"
    /\ ParseIdle /\ ExtractIdle /\ ImageIdle

\* executor.submit(process_image_file, path, ...) for the next path
Submit ==
    /\ pcBatch = "submit"
    /\ Unsubmitted # {}
    /\ LET i == CHOOSE i \in Unsubmitted : \A j \in Unsubmitted : i <= j
       IN  futures' = [futures EXCEPT ![i] = "queued"]
    /\ UNCHANGED <<image_paths, trouble, fate, max_workers, outcome, results, collected, pcBatch>>
    /\ UNCHANGED <<parseVars, extractVars, imageVars>>

\* the comprehension is done: as_completed(futures) starts
SubmitDone ==
    /\ pcBatch = "submit"
    /\ Unsubmitted = {}
    /\ pcBatch' = "collect"
    /\ UNCHANGED <<image_paths, trouble, fate, max_workers, futures, outcome, results, collected>>
    /\ UNCHANGED <<parseVars, extractVars, imageVars>>

\* a pool that starts a thread for every work item
WorkerFree_Unbounded == TRUE

\* the pool runs at most max_workers threads
WorkerFree == Cardinality(InFlight) < max_workers

\* a free worker takes the oldest queued work item and calls
\* process_image_file on it; scn is what this analysis will meet
Start(i, scn) ==
    /\ pcBatch \in {"submit", "collect", "interrupted"}
    /\ i \in Queued
    /\ \A j \in Queued : i <= j
    /\ WorkerFree
    /\ futures' = [futures EXCEPT ![i] = "running"]
    /\ fate' = [fate EXCEPT ![i] = scn]
    /\ UNCHANGED <<image_paths, trouble, max_workers, outcome, results, collected, pcBatch>>
    /\ UNCHANGED <<parseVars, extractVars, imageVars>>

\* process_image_file is over: the future holds what it returned or raised
Finish(i) ==
    /\ i \in InFlight
    /\ futures' = [futures EXCEPT ![i] = "done"]
    /\ outcome' = [outcome EXCEPT ![i] = ProcessImageFile(fate[i])]
    /\ UNCHANGED <<image_paths, trouble, fate, max_workers, results, collected, pcBatch>>
    /\ UNCHANGED <<parseVars, extractVars, imageVars>>

\* lines 176-182: the entry appended for a completed future
ResultEntry(path, out) ==
    IF ~Raised(out)
    THEN [path |-> path, info |-> out.info, annotated_img |-> out.annotated_img,
          error |-> out.error]
    ELSE [path |-> path, info |-> None, annotated_img |-> None, error |-> Message(out)]

\* as_completed yields a completed future that it has not yielded yet
Collect(i) ==
    /\ pcBatch = "collect"
    /\ i \in Images
    /\ futures[i] = "done"
    /\ i \notin Range(collected)
    /\ results' = Append(results, ResultEntry(image_paths[i], outcome[i]))
    /\ collected' = Append(collected, i)
    /\ UNCHANGED <<image_paths, trouble, fate, max_workers, futures, outcome, pcBatch>>
    /\ UNCHANGED <<parseVars, extractVars, imageVars>>

\* a loop left after its first pass
AsCompletedExhausted_FirstPass == Len(collected) >= 1 \/ Len(image_paths) = 0

\* as_completed has yielded every future
AsCompletedExhausted == Len(collected) = Len(image_paths)

\* the loop and the with block end: return results
Return ==
    /\ pcBatch = "collect"
    /\ AsCompletedExhausted
    /\ pcBatch' = "returned"
    /\ UNCHANGED <<image_paths, trouble, fate, max_workers, futures, outcome, results, collected>>
    /\ UNCHANGED <<parseVars, extractVars, imageVars>>

\* the caller interrupts the wait of as_completed: the exception leaves the
\* loop and enters the executor's __exit__, that is shutdown(wait=True)
Interrupt ==
    /\ pcBatch = "collect"
    /\ \E i \in Images : futures[i] # "done"
    /\ pcBatch' = "interrupted"
    /\ UNCHANGED <<image_paths, trouble, fate, max_workers, futures, outcome, results, collected>>
    /\ UNCHANGED <<parseVars, extractVars, imageVars>>

\* shutdown(wait=True) returns once every work item has run; the
\* interruption then leaves process_batch_images
Abort ==
    /\ pcBatch = "interrupted"
    /\ \A i \in Images : futures[i] = "done"
    /\ pcBatch' = "aborted"
    /\ UNCHANGED <<image_paths, trouble, fate, max_workers, futures, outcome, results, collected>>
    /\ UNCHANGED <<parseVars, extractVars, imageVars>>

Init == InitBatch(Paths, Troubles)

\* the analyses of a batch succeed or meet the batch's trouble
StartSome == \E i \in Images, scn \in {GoodScenario, trouble} : Start(i, scn)

Next ==
    \/ Submit
    \/ SubmitDone
    \/ StartSome
    \/ \E i \in Images : Finish(i)
    \/ \E i \in Images : Collect(i)
    \/ Return
    \/ Interrupt
    \/ Abort

Spec == Init /\ [][Next]_vars

(* The same process under the scheduling the pool gives: the calling       *)
(* thread and the worker threads keep running, and every call of           *)
(* process_image_file ends. The batches are of one path repeated, their    *)
(* analyses succeed or fail at the upload.                                 *)

InitFair == InitBatch(<<"a.jpg">>, {UploadFails})

Fairness ==
    /\ WF_vars(Submit)
    /\ WF_vars(SubmitDone)
    /\ WF_vars(StartSome)
    /\ WF_vars(\E i \in Images : Finish(i))

FairSpec == InitFair /\ [][Next]_vars /\ Fairness

----
(* Claims about the heuristic extractor.                                   *)

\* the first of the processed lines that matches the rule of key k
MatchingLines(k) == {i \in 1..pos : RuleMatches(k, text[i])}
FirstMatching(k) == CHOOSE i \in MatchingLines(k) : \A j \in MatchingLines(k) : i <= j

\* C5: first match per key wins for every extracted field: the value of a
\* key in the mapping is the one its first matching line gave, and no later
\* line changes it; in particular for two brand lines with different values.
C5_FirstMatchWinsEveryKey ==
    \A k \in DOMAIN result :
        /\ MatchingLines(k) # {}
        /\ result[k] = RuleValue(k, text[FirstMatching(k)])

FlagKeys == {"halal", "gluten_free"}

\* C11: the two flags are monotone across lines: once a processed line has
\* matched a flag's test the flag is stored true, whatever lines follow, and
\* a flag no line matched is absent; a flag is never stored false.
C11_FlagsAreMonotone ==
    \A k \in FlagKeys :
        /\ (k \in DOMAIN result) = (MatchingLines(k) # {})
        /\ k \in DOMAIN result => result[k] = PyTrue

\* a halal line matched first, and lines that do not match it followed
C11_Witness ==
    /\ pcParse = "returned"
    /\ pos = MaxLines
    /\ MatchingLines("halal") = {1}
    /\ \E i \in 2..pos : Lower(text[i].label) = "halal"
    /\ result["halal"] = PyTrue
    /\ "gluten_free" \notin DOMAIN result

GuardedKeys ==
    {"price", "weight", "size", "ingredients", "flavour", "item_count", "no_of_packs"}

\* C14: for price, weight, size, ingredients, flavour, item_count and
\* no_of_packs, after any number of processed lines the key is present
\* exactly when some processed line matched its rule, and its value is the
\* one extracted from the first such line: later matching lines leave it
\* unchanged.
C14_GuardedKeysKeepFirstMatch ==
    \A k \in GuardedKeys :
        /\ (k \in DOMAIN result) = (MatchingLines(k) # {})
        /\ k \in DOMAIN result => result[k] = RuleValue(k, text[FirstMatching(k)])

\* the whole text is processed; some guarded key was matched by two lines
\* that give different values, and the mapping holds the first one
C14_Witness ==
    /\ pcParse = "returned" /\ pos = MaxLines
    /\ \E k \in GuardedKeys : \E i, j \in MatchingLines(k) :
           /\ i < j
           /\ RuleValue(k, text[i]) # RuleValue(k, text[j])
           /\ i = FirstMatching(k)
           /\ result[k] = RuleValue(k, text[i])

\* a line where price or mrp, with or without a separator, is followed by a
\* number, with or without a currency symbol before it
PricedLine(line) ==
    /\ Lower(line.label) \in {"price", "mrp"}
    /\ line.tok.sym \in CurrencySymbols \cup {""}
    /\ line.tok.num # ""
PricedLines == {i \in 1..pos : PricedLine(text[i])}

\* C12: the price rule extracts a price from every line where price or mrp
\* is followed by a number, the currency symbol being optional: "MRP: 120"
\* populates the price key as "Price: $4" does.
C12_CurrencySymbolIsOptional ==
    PricedLines # {} =>
        /\ "price" \in DOMAIN result
        /\ \E i \in PricedLines : result["price"] = Str(text[i].tok.sym \o text[i].tok.num)

----
(* Claims about the merge and the construction of the record.              *)

\* the keys the bbox annotation carries, and the value it gives a key (for
\* the list form, the value of the first entry with that key)
BboxKeys(resp) ==
    CASE resp.bbox_annotation.form = "dict" -> DOMAIN resp.bbox_annotation.dict
      [] resp.bbox_annotation.form = "list" ->
            {resp.bbox_annotation.list[i].key : i \in 1..Len(resp.bbox_annotation.list)} \ {""}
      [] OTHER -> {}

BboxValue(resp, k) ==
    IF resp.bbox_annotation.form = "dict" THEN resp.bbox_annotation.dict[k]
    ELSE LET l == resp.bbox_annotation.list
             first == CHOOSE i \in 1..Len(l) :
                        /\ l[i].key = k
                        /\ \A j \in 1..Len(l) : l[j].key = k => i <= j
         IN  l[first].value

Merging == pcExtract \in {"build", "done"}

\* C4: for every key, the merged value is the structured annotation's when
\* the key is there, otherwise the bbox annotation's when the key is there,
\* otherwise the heuristic one, whatever sources are present.
C4_MergePrecedence ==
    Merging =>
        \A k \in (DOMAIN ocr_response.document_annotation) \cup BboxKeys(ocr_response)
                    \cup (DOMAIN Heuristics(ocr_response)) :
            /\ k \in DOMAIN extracted
            /\ extracted[k] =
                 (IF k \in DOMAIN ocr_response.document_annotation
                  THEN ocr_response.document_annotation[k]
                  ELSE IF k \in BboxKeys(ocr_response) THEN BboxValue(ocr_response, k)
                  ELSE Heuristics(ocr_response)[k])

\* the mapping that carries the pairs of a sequence of entries: each key of
\* the sequence with the value of its first entry
AsMapping(resp) == [k \in BboxKeys(resp) |-> BboxValue(resp, k)]

\* C15: a bbox annotation given as a sequence of entries merges exactly like
\* the mapping form carrying the same pairs (each key with the value of its
\* first entry, empty, zero and false values included).
C15_ListMergesLikeMapping ==
    Merging /\ ocr_response.bbox_annotation.form = "list" =>
        extracted = Merged(Response(ocr_response.document_annotation,
                                    DictBbox(AsMapping(ocr_response)),
                                    ocr_response.pages))

NameIsValid(data) ==
    "product_name" \in DOMAIN data /\ ValidValue("product_name", data["product_name"])
BadTypedKeys(data) ==
    {k \in (DeclaredFields \cap DOMAIN data) \ {"product_name"} : ~ValidValue(k, data[k])}
ExtraKeys(data) == (DOMAIN data) \ DeclaredFields

\* C6: with a valid product_name and another declared field whose value
\* fails its type, the function drops the invalid key, retries once and
\* returns a record without that field.
C6_InvalidFieldIsDropped ==
    (pcExtract = "done" /\ NameIsValid(extracted) /\ BadTypedKeys(extracted) # {}) =>
        /\ product.attempts = 2
        /\ product.value.ty = "ProductInfo"
        /\ DOMAIN product.value.fields =
              (DeclaredFields \cap DOMAIN extracted) \ BadTypedKeys(extracted)

OneExtraKeyCase ==
    /\ pcExtract = "done"
    /\ InvalidFields(extracted) = {}
    /\ Cardinality(ExtraKeys(extracted)) = 1

\* C7: a merged mapping whose required keys are valid and that holds exactly
\* one key that is no declared field gives a record, which omits that key and
\* keeps the value of every declared key.
C7_ExtraKeyIsOmitted ==
    OneExtraKeyCase =>
        /\ product.value.ty = "ProductInfo"
        /\ DOMAIN product.value.fields = (DOMAIN extracted) \ ExtraKeys(extracted)
        /\ \A k \in DOMAIN product.value.fields : product.value.fields[k].v = extracted[k].v

C7_Witness ==
    /\ OneExtraKeyCase
    /\ product.value.ty = "ProductInfo"
    /\ "item_count" \in DOMAIN extracted

----
(* Claims about one image.                                                 *)

\* no source names product_name
NoNameEvidence(resp) ==
    /\ "product_name" \notin DOMAIN resp.document_annotation
    /\ "product_name" \notin BboxKeys(resp)
    /\ "product_name" \notin DOMAIN Heuristics(resp)

\* the OCR call returned a response
OcrAnswered(scn) == scn.fail \in {"none", "image_open"}

NoNameCase == pcImage = "done" /\ OcrAnswered(scenario) /\ NoNameEvidence(scenario.response)

\* C8: with product_name in no source, both constructions fail, no record is
\* produced, and the image's result has a null record and an error message
\* that names the missing field.
C8_MissingNameIsReported ==
    NoNameCase =>
        /\ Raised(ProductInfo(Merged(scenario.response)))
        /\ Raised(ProductInfo(FallbackData(Merged(scenario.response))))
        /\ ret.ty = "tuple"
        /\ ret.info = None
        /\ ret.error.ty = "str"
        /\ "product_name" \in ret.error.names

C8_Witness ==
    /\ NoNameCase
    /\ ret.info = None
    /\ scenario.response.bbox_annotation.form = "list"
    /\ Len(scenario.response.pages) = 1

\* the well-formed boxes of the response: four numeric coordinates
WellFormed(box) == Len(box) = 4 /\ \A j \in 1..Len(box) : box[j].ty = "int"
PageBoxes(resp) ==
    IF Len(resp.pages) = 1 /\ resp.pages[1].boxes.has THEN resp.pages[1].boxes.list ELSE <<>>
EntryBoxes(resp) ==
    IF resp.bbox_annotation.form = "list"
    THEN [i \in 1..Len(resp.bbox_annotation.list) |-> resp.bbox_annotation.list[i].bbox.items]
    ELSE <<>>

\* C9: when the response yields a valid record, malformed boxes, in a page's
\* list or in a bbox-annotation entry, are skipped without raising: the
\* result carries the record, error null, and the well-formed boxes drawn.
C9_MalformedBoxesAreSkipped ==
    (/\ pcImage = "done"
     /\ scenario.fail = "none"
     /\ ~Raised(ExtractProductInfoFromOcr(scenario.response))) =>
        /\ ret.ty = "tuple"
        /\ ret.error = None
        /\ ret.info = ExtractProductInfoFromOcr(scenario.response)
        /\ ret.annotated_img.ty = "Image"
        /\ ret.annotated_img.red = SelectSeq(PageBoxes(scenario.response), WellFormed)
        /\ ret.annotated_img.blue = SelectSeq(EntryBoxes(scenario.response), WellFormed)

----
(* Claims about the batch.                                                 *)

Returned == pcBatch = "returned"

\* what process_image_file gives for image i when nothing is caught late:
\* the outcome of the body of its try, from the image's own fate alone
OwnBody(i) == TryBody(fate[i])

\* C1: for every sequence of paths and every mix of successes and failures,
\* the batch returns only when every analysis has finished, with exactly one
\* entry per submitted image, each carrying the path of its image.
C1_OneResultPerImage ==
    Returned =>
        /\ \A i \in Images : futures[i] = "done"
        /\ Len(results) = Len(image_paths)
        /\ Len(collected) = Len(image_paths)
        /\ Range(collected) = Images
        /\ \A j \in 1..Len(results) :
              /\ results[j].path = image_paths[collected[j]]
              /\ (results[j].error = None) = ~Raised(OwnBody(collected[j]))

C1_Witness ==
    /\ Returned
    /\ Len(image_paths) = MaxImages
    /\ image_paths[1] = image_paths[2]
    /\ \E j \in 1..Len(results) : results[j].error = None
    /\ \E j \in 1..Len(results) : results[j].error # None

\* C2: a failure of any step of one image's processing becomes that image's
\* error message: no call of process_image_file raises, and every entry of
\* the results is the one its own image's steps give, whatever happened to
\* the other images.
C2_FailureStaysWithItsImage ==
    /\ pcBatch # "idle" =>
          \A i \in Images : futures[i] = "done" => outcome[i].ty = "tuple"
    /\ \A j \in 1..Len(results) :
          LET body == OwnBody(collected[j])
          IN  IF Raised(body)
              THEN /\ results[j].info = None
                   /\ results[j].annotated_img = None
                   /\ results[j].error = Message(body)
              ELSE /\ results[j].info = body.info
                   /\ results[j].annotated_img = body.annotated_img
                   /\ results[j].error = None

C2_Witness ==
    /\ Len(results) >= 2
    /\ Raised(OwnBody(collected[1]))
    /\ results[1].error # None
    /\ ~Raised(OwnBody(collected[2]))
    /\ results[2].error = None
    /\ results[2].info.ty = "ProductInfo"

\* C3: every entry of the results has one of two shapes: record and overlay
\* present with a null error, or both null with an error message.
C3_TwoShapes ==
    \A j \in 1..Len(results) :
        \/ /\ results[j].info.ty = "ProductInfo"
           /\ results[j].annotated_img.ty = "Image"
           /\ results[j].error = None
        \/ /\ results[j].info = None
           /\ results[j].annotated_img = None
           /\ results[j].error.ty = "str"

C3_Witness ==
    /\ \E j \in 1..Len(results) : results[j].info.ty = "ProductInfo" /\ results[j].error = None
    /\ \E j \in 1..Len(results) : results[j].info = None /\ results[j].error.ty = "str"

\* C10: at every moment at most max_workers analyses are in flight (4 when
\* the caller leaves the default); the images beyond the bound wait, and
\* every waiting image is eventually started.
C10_BoundedInFlight ==
    /\ [](pcBatch # "idle" => Cardinality(InFlight) <= max_workers)
    /\ [](pcBatch # "idle" => max_workers \in (1..MaxWorkers) \cup {DefaultMaxWorkers})
    /\ \A i \in 1..MaxImages :
          (i \in Images /\ futures[i] = "queued") ~> (i \in Images /\ futures[i] # "queued")

C10_Witness ==
    /\ Cardinality(InFlight) = max_workers
    /\ Queued # {}

\* C13: once the wait for results has been interrupted, analyses in flight
\* may finish, but no image that has not been started is dispatched to a
\* worker: every step taken after the abort leaves a queued image queued.
C13_NoDispatchAfterAbort ==
    [][pcBatch = "interrupted" =>
          \A i \in Images : futures[i] = "queued" => futures'[i] = "queued"]_vars

====
